---- MODULE Spec2Model ----
(***************************************************************************)
(* Application tracking of AI-INTERNSHIP-HUNTER: the applications table,   *)
(* the routes that create and edit application records, and the status     *)
(* reconciliation run of TrackerAgent.checkApplicationStatuses.            *)
(* Time is counted in whole hours.                                         *)
(***************************************************************************)
EXTENDS Integers, Sequences, FiniteSets, TLC

\* ---------------------------------------------------------------- bounds
MaxApps == 1
\* requests served: applications created, edited, and runs started
MaxRequests == 3
MaxTime == 78
\* rows in the table when a run over an existing table starts
MaxListed == 2
\* the instants at which requests arrive and the run takes its steps
Instants == {0, 6, MaxTime}

\* ------------------------------------------------------------- constants
DebounceHours == 6
MinPredictionDays == 3
HoursPerDay == 24

ValidStatuses == {"pending", "submitted", "reviewing", "accepted", "rejected"}
TerminalStatuses == {"accepted", "rejected"}

NoStatus == "none"
Users == {"u1"}

Internships == {1}

enableWebScraping == TRUE
enableAPIChecking == TRUE

\* outcomes of the external signal sources
PortalOutcomes == {NoStatus, "throw", "reviewing", "accepted", "rejected"}
ApiOutcomes == {NoStatus, "reviewing"}
LLMStatuses == ValidStatuses \cup {"interviewing"}
LLMResponses ==
    {[kind |-> k, shouldUpdate |-> FALSE, newStatus |-> NoStatus] :
        k \in {"throw", "empty", "notjson", "json"}}
    \cup {[kind |-> "json", shouldUpdate |-> TRUE, newStatus |-> s] : s \in LLMStatuses}
NoResponse == [kind |-> "empty", shouldUpdate |-> FALSE, newStatus |-> NoStatus]
\* the internships row of the application: with or without a link, absent,
\* or the query fails
LookupOutcomes == {"link", "nolink", "missing", "throw"}

\* ------------------------------------------------------------------ notes
\* notes is free text; it is modelled as the sequence of texts it contains
\* a text is one the user typed, one a route wrote, or the summary
\* "Status updated from <old> to ..." of a reconciliation write
Note(kind, old) == [kind |-> kind, old |-> old]
UserNote == Note("user", "")
AutomatedNote == Note("automated", "")
ManualNote == Note("manual", "")
NoNotes == << >>

NoTime == << >>

\* the fetch of the list, among the things that can fail in a run
ListFetch == 0
At(t) == <<t>>

VARIABLES
    now,                 \* Date.now(), in hours
    applications,        \* the applications table, rows in insertion order
    requests,            \* number of requests served so far
    pc,                  \* position of the reconciliation run
    snapshot,            \* the list the run read
    idx,                 \* next element of the list
    update,              \* StatusUpdate waiting for updateApplicationStatus
    statusUpdates,
    checkedApplications,
    result,
    trace,               \* what the current iteration consulted
    statusSince,         \* per row, when its current status was entered
    writes,              \* ids of the rows this run sent an update for
    failures,            \* what failed in this run: ListFetch or a row's id
    page                 \* the application list of the tracker page

\* POST /api/match and MatcherAgent.matchUserToInternships
VARIABLES
    mpc,                 \* position of the match request
    supplied,            \* weight_preferences of the request body
    preferences,         \* the weights handed to the matcher
    internships,         \* the postings the matcher fetched
    mi,                  \* next element of internships
    matchingResults,
    highMatches,
    mediumMatches,
    lowMatches,
    match_score,         \* column match_score of the internships table
    analysisOf,          \* per posting, what stage 2 answered
    unscored,            \* postings whose stage 1 failed
    embeddingOf,         \* per posting processed, the embedding stage 1 got
    matchResult          \* what the request returned

\* MatcherAgent.calculateSimilarity, called on its own
VARIABLES
    embeddingA,          \* argument userEmbedding
    embeddingB,          \* argument internshipEmbedding
    similarity           \* what the call returned

\* the create requests of POST /api/applications and POST /api/apply, each
\* in two steps: the select of the existing record, then the insert
VARIABLES
    creating             \* requests between their select and their insert

\* Date.now() of the rate limiters and of the circuit breaker
VARIABLES
    clock

\* POST /api/scrape behind the middleware
VARIABLES
    rateLimitStore,      \* the Map of the route, per IP
    middlewareStore,     \* the Map of the middleware, per IP
    hits,                \* per IP, the window of the route and its admissions
    answered             \* the last request: its IP and its answer

\* CircuitBreaker
VARIABLES
    breaker,             \* failures, lastFailureTime, state
    calls,               \* operations invoked and not yet settled
    streak,              \* failures since the last success or reset
    lastCall             \* the last thing that happened to the breaker

\* retry
VARIABLES
    retry,               \* position, maxAttempts, attempt, lastError, result
    attempts             \* the outcome of every invocation so far

\* RealtimeManager
VARIABLES
    channels,            \* the channel names the Map channels has
    callbacks,           \* per channel name, its Set in insertion order
    subscriptions,       \* every subscribe call made, and whether the
                         \* function it returned has been called
    reached              \* the last event: its channel, the callbacks run

trackerVars == <<now, applications, requests, pc, snapshot, idx, update,
                 statusUpdates, checkedApplications, result, trace, statusSince,
                 writes, failures, page>>

matchVars == <<mpc, supplied, preferences, internships, mi, matchingResults,
               highMatches, mediumMatches, lowMatches, match_score, analysisOf,
               unscored, embeddingOf, matchResult>>

simVars == <<embeddingA, embeddingB, similarity>>

createVars == <<creating>>
clockVars == <<clock>>
limitVars == <<rateLimitStore, middlewareStore, hits, answered>>
breakerVars == <<breaker, calls, streak, lastCall>>
retryVars == <<retry, attempts>>
realtimeVars == <<channels, callbacks, subscriptions, reached>>

serviceVars == <<simVars, createVars, clockVars, limitVars, breakerVars,
                 retryVars, realtimeVars>>

vars == <<trackerVars, matchVars, serviceVars>>

runVars == <<pc, snapshot, idx, update, statusUpdates, checkedApplications,
             result, trace>>

Range(s) == {s[i] : i \in 1..Len(s)}

NoTrace ==
    [applicationId |-> 0, at |-> 0, skipped |-> FALSE, lookup |-> FALSE,
     consulted |-> << >>, proposals |-> << >>, llm |-> FALSE]

\* thousandths for scores, tenths for weights and sub-scores
NoPreferences == << >>
NoResult == << >>
InitMatcher ==
    /\ mpc = "idle"
    /\ supplied = NoPreferences
    /\ preferences = NoPreferences
    /\ internships = << >>
    /\ mi = 1
    /\ matchingResults = << >>
    /\ highMatches = 0
    /\ mediumMatches = 0
    /\ lowMatches = 0
    /\ match_score = << >>
    /\ analysisOf = << >>
    /\ unscored = {}
    /\ embeddingOf = << >>
    /\ matchResult = NoResult

\* no call of calculateSimilarity on its own
NotCalled == -1000005
InitSimilarity ==
    /\ embeddingA = << >>
    /\ embeddingB = << >>
    /\ similarity = NotCalled

InitCreate == creating = {}

InitClock == clock = 0

\* request.ip || x-forwarded-for || 'unknown'
Ips == {"a", "unknown"}
\* rateLimitStore.get(ip) of an IP the Map has no entry for
NoRecord == [count |-> 0, resetTime |-> -1]
\* no request of the IP yet: no window, nothing admitted
NoHits == [opened |-> -1, admitted |-> 0]
\* who answered (the middleware, POST /api/scrape, another route), the
\* status, and whether scrapeInternships was called
Answer(ip, by, status, scraped) ==
    [ip |-> ip, by |-> by, status |-> status, scraped |-> scraped]
NoAnswer == Answer("none", "none", 0, FALSE)
InitLimit ==
    /\ rateLimitStore = [ip \in Ips |-> NoRecord]
    /\ middlewareStore = [ip \in Ips |-> NoRecord]
    /\ hits = [ip \in Ips |-> NoHits]
    /\ answered = NoAnswer

InitBreaker ==
    /\ breaker = [failures |-> 0, lastFailureTime |-> 0, state |-> "CLOSED"]
    /\ calls = 0
    /\ streak = 0
    /\ lastCall = "none"

NoRetry ==
    [pc |-> "idle", maxAttempts |-> 0, attempt |-> 0, lastError |-> "undefined",
     outcome |-> "none", value |-> "undefined"]
InitRetry ==
    /\ retry = NoRetry
    /\ attempts = << >>

NoEvent == [channelName |-> "none", invoked |-> {}]
InitRealtime ==
    /\ channels = {}
    /\ callbacks = << >>
    /\ subscriptions = << >>
    /\ reached = NoEvent

InitOthers ==
    /\ InitCreate
    /\ InitClock
    /\ InitLimit
    /\ InitBreaker
    /\ InitRetry
    /\ InitRealtime

InitTracker ==
    /\ now = 0
    /\ applications = << >>
    /\ requests = 0
    /\ pc = "idle"
    /\ snapshot = << >>
    /\ idx = 1
    /\ update = << >>
    /\ statusUpdates = << >>
    /\ checkedApplications = << >>
    /\ result = "none"
    /\ trace = NoTrace
    /\ statusSince = << >>
    /\ writes = << >>
    /\ failures = {}
    /\ page = << >>

Init ==
    /\ InitTracker
    /\ InitMatcher
    /\ InitSimilarity
    /\ InitOthers

\* the rows of next keep the entry time of a status they already had
SinceAfter(next) ==
    [i \in 1..Len(next) |->
        IF i <= Len(applications) /\ next[i].status = applications[i].status
        THEN statusSince[i] ELSE now]

\* ------------------------------------------------------------------ clock
Tick(t) ==
    /\ t > now
    /\ now' = t
    /\ UNCHANGED <<applications, requests, runVars, statusSince, writes,
                   failures, page>>
    /\ UNCHANGED <<matchVars, serviceVars>>

\* ------------------------------------------------- POST /api/applications
Matching(user_id, internship_id) ==
    {i \in 1..Len(applications) :
        /\ applications[i].user_id = user_id
        /\ applications[i].internship_id = internship_id}

NewRow(user_id, internship_id, status, notes, applied_on) ==
    [id |-> Len(applications) + 1, user_id |-> user_id,
     internship_id |-> internship_id, status |-> status, notes |-> notes,
     applied_on |-> applied_on, created_at |-> now, updated_at |-> now]

PostApplication(user_id, internship_id, status, notes) ==
    /\ Len(applications) < MaxApps
    /\ requests < MaxRequests
    /\ requests' = requests + 1
    /\ Cardinality(Matching(user_id, internship_id)) # 1
    /\ applications' = Append(applications,
          NewRow(user_id, internship_id,
                 IF status = NoStatus THEN "pending" ELSE status,
                 notes,
                 IF status = "submitted" THEN At(now) ELSE NoTime))
    /\ statusSince' = SinceAfter(applications')
    /\ UNCHANGED <<now, runVars, writes, failures, page>>
    /\ UNCHANGED <<matchVars, serviceVars>>

\* -------------------------------------------------- PUT /api/applications
Owned(application_id, user_id) ==
    {i \in 1..Len(applications) :
        /\ applications[i].id = application_id
        /\ applications[i].user_id = user_id}

PutUpdateData(existingApplication, status, hasNotes, notes) ==
    LET s1 == [existingApplication EXCEPT !.updated_at = now]
        s2 == IF status # NoStatus
              THEN [s1 EXCEPT !.status = status,
                              !.applied_on =
                                 IF status = "submitted" /\ existingApplication.applied_on = NoTime
                                 THEN At(now) ELSE @]
              ELSE s1
    IN  IF hasNotes THEN [s2 EXCEPT !.notes = notes] ELSE s2

PutApplication(application_id, user_id, status, hasNotes, notes) ==
    /\ requests < MaxRequests
    /\ status \in ValidStatuses \cup {NoStatus}
    /\ Owned(application_id, user_id) # {}
    /\ applications' = [applications EXCEPT
          ![application_id] = PutUpdateData(@, status, hasNotes, notes)]
    /\ requests' = requests + 1
    /\ statusSince' = SinceAfter(applications')
    /\ UNCHANGED <<now, runVars, writes, failures, page>>
    /\ UNCHANGED <<matchVars, serviceVars>>

\* ---------------------------------------------------------- POST /api/apply
\* the insert of a row that names no id never conflicts on the primary key,
\* so the upsert of trackManualApplication adds a row
AlreadySubmitted(user_id, internship_id) ==
    LET m == Matching(user_id, internship_id)
    IN  /\ Cardinality(m) = 1
        /\ \E i \in m : applications[i].status # "pending"

trackManualApplication(user_id, internship_id) ==
    /\ Len(applications) < MaxApps
    /\ requests < MaxRequests
    /\ requests' = requests + 1
    /\ ~AlreadySubmitted(user_id, internship_id)
    /\ applications' = Append(applications,
          NewRow(user_id, internship_id, "submitted", <<ManualNote>>, At(now)))
    /\ statusSince' = SinceAfter(applications')
    /\ UNCHANGED <<now, runVars, writes, failures, page>>
    /\ UNCHANGED <<matchVars, serviceVars>>

submitAutomatedApplication(user_id, internship_id, link, applicationSuccess) ==
    /\ Len(applications) < MaxApps
    /\ requests < MaxRequests
    /\ requests' = requests + 1
    /\ ~AlreadySubmitted(user_id, internship_id)
    /\ link
    /\ applicationSuccess
    /\ applications' = Append(applications,
          NewRow(user_id, internship_id, "submitted", <<AutomatedNote>>, At(now)))
    /\ statusSince' = SinceAfter(applications')
    /\ UNCHANGED <<now, runVars, writes, failures, page>>
    /\ UNCHANGED <<matchVars, serviceVars>>

\* ------------------------------------------- TrackerAgent (reconciliation)
StatusUpdate(applicationId, oldStatus, newStatus, source) ==
    [applicationId |-> applicationId, oldStatus |-> oldStatus,
     newStatus |-> newStatus, source |-> source]

checkApplicationPortal(portal) ==
    IF portal = "throw" THEN NoStatus ELSE portal

checkCompanyAPI(api) == api

daysSinceApplied(application, t) ==
    LET appliedDate == IF application.applied_on # NoTime
                       THEN application.applied_on[1]
                       ELSE application.created_at
    IN  (t - appliedDate) \div HoursPerDay

PredictionRequested(application, t) ==
    ~(daysSinceApplied(application, t) < MinPredictionDays)

predictStatusUpdate(application, llm, t) ==
    IF ~PredictionRequested(application, t) THEN NoStatus
    ELSE IF llm.kind # "json" THEN NoStatus
    ELSE IF llm.shouldUpdate /\ llm.newStatus # application.status
         THEN llm.newStatus
         ELSE NoStatus

\* line 178 without its newStatus === oldStatus test
checkApplicationStatus_ApiAlways(application, link, portal, api, llm, t) ==
    LET oldStatus == application.status
        usePortal == link /\ enableWebScraping
        portalUpdate == IF usePortal THEN checkApplicationPortal(portal) ELSE NoStatus
        n1 == IF portalUpdate # NoStatus THEN portalUpdate ELSE oldStatus
        s1 == IF portalUpdate # NoStatus THEN "scraping" ELSE "manual"
        useApi == enableAPIChecking
        apiUpdate == IF useApi THEN checkCompanyAPI(api) ELSE NoStatus
        n2 == IF apiUpdate # NoStatus THEN apiUpdate ELSE n1
        s2 == IF apiUpdate # NoStatus THEN "api" ELSE s1
        usePrediction == n2 = oldStatus
        predictedUpdate == IF usePrediction
                           THEN predictStatusUpdate(application, llm, t)
                           ELSE NoStatus
        newStatus == IF predictedUpdate # NoStatus THEN predictedUpdate ELSE n2
        source == IF predictedUpdate # NoStatus THEN "manual" ELSE s2
    IN  [update |-> IF newStatus # oldStatus
                    THEN <<StatusUpdate(application.id, oldStatus, newStatus, source)>>
                    ELSE << >>,
         consulted |-> (IF usePortal THEN <<"portal">> ELSE << >>)
                       \o (IF useApi THEN <<"api">> ELSE << >>)
                       \o (IF usePrediction THEN <<"prediction">> ELSE << >>),
         proposals |-> (IF usePortal THEN <<portalUpdate>> ELSE << >>)
                       \o (IF useApi THEN <<apiUpdate>> ELSE << >>)
                       \o (IF usePrediction THEN <<predictedUpdate>> ELSE << >>),
         llm |-> usePrediction /\ PredictionRequested(application, t)]

\* line 198 without its newStatus !== oldStatus test
checkApplicationStatus_AlwaysUpdate(application, link, portal, api, llm, t) ==
    LET oldStatus == application.status
        usePortal == link /\ enableWebScraping
        portalUpdate == IF usePortal THEN checkApplicationPortal(portal) ELSE NoStatus
        n1 == IF portalUpdate # NoStatus THEN portalUpdate ELSE oldStatus
        s1 == IF portalUpdate # NoStatus THEN "scraping" ELSE "manual"
        useApi == n1 = oldStatus /\ enableAPIChecking
        apiUpdate == IF useApi THEN checkCompanyAPI(api) ELSE NoStatus
        n2 == IF apiUpdate # NoStatus THEN apiUpdate ELSE n1
        s2 == IF apiUpdate # NoStatus THEN "api" ELSE s1
        usePrediction == n2 = oldStatus
        predictedUpdate == IF usePrediction
                           THEN predictStatusUpdate(application, llm, t)
                           ELSE NoStatus
        newStatus == IF predictedUpdate # NoStatus THEN predictedUpdate ELSE n2
        source == IF predictedUpdate # NoStatus THEN "manual" ELSE s2
    IN  [update |-> IF TRUE
                    THEN <<StatusUpdate(application.id, oldStatus, newStatus, source)>>
                    ELSE << >>,
         consulted |-> (IF usePortal THEN <<"portal">> ELSE << >>)
                       \o (IF useApi THEN <<"api">> ELSE << >>)
                       \o (IF usePrediction THEN <<"prediction">> ELSE << >>),
         proposals |-> (IF usePortal THEN <<portalUpdate>> ELSE << >>)
                       \o (IF useApi THEN <<apiUpdate>> ELSE << >>)
                       \o (IF usePrediction THEN <<predictedUpdate>> ELSE << >>),
         llm |-> usePrediction /\ PredictionRequested(application, t)]

\* the three sources in the order the method tries them; the result names
\* the sources consulted, what each proposed, and the StatusUpdate returned
checkApplicationStatus(application, link, portal, api, llm, t) ==
    LET oldStatus == application.status
        usePortal == link /\ enableWebScraping
        portalUpdate == IF usePortal THEN checkApplicationPortal(portal) ELSE NoStatus
        n1 == IF portalUpdate # NoStatus THEN portalUpdate ELSE oldStatus
        s1 == IF portalUpdate # NoStatus THEN "scraping" ELSE "manual"
        useApi == n1 = oldStatus /\ enableAPIChecking
        apiUpdate == IF useApi THEN checkCompanyAPI(api) ELSE NoStatus
        n2 == IF apiUpdate # NoStatus THEN apiUpdate ELSE n1
        s2 == IF apiUpdate # NoStatus THEN "api" ELSE s1
        usePrediction == n2 = oldStatus
        predictedUpdate == IF usePrediction
                           THEN predictStatusUpdate(application, llm, t)
                           ELSE NoStatus
        newStatus == IF predictedUpdate # NoStatus THEN predictedUpdate ELSE n2
        source == IF predictedUpdate # NoStatus THEN "manual" ELSE s2
    IN  [update |-> IF newStatus # oldStatus
                    THEN <<StatusUpdate(application.id, oldStatus, newStatus, source)>>
                    ELSE << >>,
         consulted |-> (IF usePortal THEN <<"portal">> ELSE << >>)
                       \o (IF useApi THEN <<"api">> ELSE << >>)
                       \o (IF usePrediction THEN <<"prediction">> ELSE << >>),
         proposals |-> (IF usePortal THEN <<portalUpdate>> ELSE << >>)
                       \o (IF useApi THEN <<apiUpdate>> ELSE << >>)
                       \o (IF usePrediction THEN <<predictedUpdate>> ELSE << >>),
         llm |-> usePrediction /\ PredictionRequested(application, t)]

Checked(application, upd) ==
    [applicationId |-> application.id, lastStatus |-> application.status,
     newStatus |-> IF upd = << >> THEN application.status ELSE upd[1].newStatus]

\* line 77 without its test of error and !applications
RunStart_IgnoreError(userId, fetched) ==
    /\ pc \in {"idle", "done", "failed"}
    /\ requests < MaxRequests
    /\ requests' = requests + 1
    /\ pc' = "loop"
    /\ snapshot' = SelectSeq(applications, LAMBDA a : a.user_id = userId)
    /\ result' = "none"
    /\ idx' = 1
    /\ update' = << >>
    /\ statusUpdates' = << >>
    /\ checkedApplications' = << >>
    /\ trace' = NoTrace
    /\ writes' = << >>
    /\ failures' = IF fetched THEN {} ELSE {ListFetch}
    /\ UNCHANGED <<now, applications, statusSince, page>>
    /\ UNCHANGED <<matchVars, serviceVars>>

\* lines 67-82: the list is read once
RunStart(userId, fetched) ==
    /\ pc \in {"idle", "done", "failed"}
    /\ requests < MaxRequests
    /\ requests' = requests + 1
    /\ IF fetched
       THEN /\ pc' = "loop"
            /\ snapshot' = SelectSeq(applications, LAMBDA a : a.user_id = userId)
            /\ result' = "none"
       ELSE /\ pc' = "failed"
            /\ snapshot' = << >>
            /\ result' = "failure"
    /\ idx' = 1
    /\ update' = << >>
    /\ statusUpdates' = << >>
    /\ checkedApplications' = << >>
    /\ trace' = NoTrace
    /\ writes' = << >>
    /\ failures' = IF fetched THEN {} ELSE {ListFetch}
    /\ UNCHANGED <<now, applications, statusSince, page>>
    /\ UNCHANGED <<matchVars, serviceVars>>

\* a loop that does not advance after an iteration
NextIndex_Stuck(i) == i

\* line 84: the for-of loop moves on to the next element
NextIndex(i) == i + 1

\* the comparison of line 90 turned around
Debounced_Inverted(application, t) == t - application.updated_at > DebounceHours

Debounced(application, t) == t - application.updated_at < DebounceHours

\* lines 86-92: an application updated less than 6 hours ago is passed over
RunSkip ==
    /\ pc = "loop"
    /\ idx <= Len(snapshot)
    /\ Debounced(snapshot[idx], now)
    /\ trace' = [NoTrace EXCEPT !.applicationId = snapshot[idx].id,
                                !.at = now, !.skipped = TRUE]
    /\ idx' = NextIndex(idx)
    /\ UNCHANGED <<now, applications, requests, pc, snapshot, update, statusUpdates,
                   checkedApplications, result, statusSince, writes, failures, page>>
    /\ UNCHANGED <<matchVars, serviceVars>>

\* the loop body without the try of line 85 and the test of line 103
RunLookupFailed_Abort(lookup) ==
    /\ pc = "loop"
    /\ idx <= Len(snapshot)
    /\ ~Debounced(snapshot[idx], now)
    /\ lookup \in {"missing", "throw"}
    /\ trace' = [NoTrace EXCEPT !.applicationId = snapshot[idx].id,
                                !.at = now, !.lookup = TRUE]
    /\ pc' = "failed"
    /\ result' = "failure"
    /\ failures' = failures \cup {snapshot[idx].id}
    /\ UNCHANGED <<now, applications, requests, idx, snapshot, update,
                   statusUpdates, checkedApplications, statusSince, writes, page>>
    /\ UNCHANGED <<matchVars, serviceVars>>

\* lines 96-106 and the catch of lines 128-131: no internships row
RunLookupFailed(lookup) ==
    /\ pc = "loop"
    /\ idx <= Len(snapshot)
    /\ ~Debounced(snapshot[idx], now)
    /\ lookup \in {"missing", "throw"}
    /\ trace' = [NoTrace EXCEPT !.applicationId = snapshot[idx].id,
                                !.at = now, !.lookup = TRUE]
    /\ idx' = NextIndex(idx)
    /\ failures' = failures \cup {snapshot[idx].id}
    /\ UNCHANGED <<now, applications, requests, pc, snapshot, update,
                   statusUpdates, checkedApplications, result, statusSince, writes, page>>
    /\ UNCHANGED <<matchVars, serviceVars>>

\* line 114 without its await: the loop goes on while the write is pending
RunCheck_NoAwait(lookup, portal, api, llm) ==
    /\ pc = "loop"
    /\ idx <= Len(snapshot)
    /\ ~Debounced(snapshot[idx], now)
    /\ lookup \in {"link", "nolink"}
    /\ LET application == snapshot[idx]
           r == checkApplicationStatus(application, lookup = "link", portal, api, llm, now)
       IN  /\ "portal" \notin Range(r.consulted) => portal = NoStatus
           /\ "api" \notin Range(r.consulted) => api = NoStatus
           /\ ~r.llm => llm = NoResponse
           /\ failures' =
                 IF \/ portal = "throw"
                    \/ r.llm /\ llm.kind \in {"throw", "notjson"}
                 THEN failures \cup {application.id}
                 ELSE failures
           /\ trace' = [applicationId |-> application.id, at |-> now,
                        skipped |-> FALSE, lookup |-> TRUE,
                        consulted |-> r.consulted, proposals |-> r.proposals,
                        llm |-> r.llm]
           /\ IF r.update # << >>
              THEN /\ statusUpdates' = Append(statusUpdates, r.update[1])
                   /\ update' = r.update
              ELSE UNCHANGED <<update, statusUpdates>>
           /\ checkedApplications' =
                 Append(checkedApplications, Checked(application, r.update))
           /\ idx' = NextIndex(idx)
           /\ UNCHANGED pc
    /\ UNCHANGED <<now, applications, requests, snapshot, result,
                   statusSince, writes, page>>
    /\ UNCHANGED <<matchVars, serviceVars>>

\* lines 108-112: the sources are consulted; an update goes on to the write
\* (a source that is not called has no outcome: one value stands for it)
RunCheck(lookup, portal, api, llm) ==
    /\ pc = "loop"
    /\ idx <= Len(snapshot)
    /\ ~Debounced(snapshot[idx], now)
    /\ lookup \in {"link", "nolink"}
    /\ LET application == snapshot[idx]
           r == checkApplicationStatus(application, lookup = "link", portal, api, llm, now)
       IN  /\ "portal" \notin Range(r.consulted) => portal = NoStatus
           /\ "api" \notin Range(r.consulted) => api = NoStatus
           /\ ~r.llm => llm = NoResponse
           /\ failures' =
                 IF \/ portal = "throw"
                    \/ r.llm /\ llm.kind \in {"throw", "notjson"}
                 THEN failures \cup {application.id}
                 ELSE failures
           /\ trace' = [applicationId |-> application.id, at |-> now,
                        skipped |-> FALSE, lookup |-> TRUE,
                        consulted |-> r.consulted, proposals |-> r.proposals,
                        llm |-> r.llm]
           /\ IF r.update # << >>
              THEN /\ statusUpdates' = Append(statusUpdates, r.update[1])
                   /\ update' = r.update
                   /\ pc' = "write"
                   /\ UNCHANGED <<idx, checkedApplications>>
              ELSE /\ checkedApplications' =
                         Append(checkedApplications, Checked(application, << >>))
                   /\ idx' = NextIndex(idx)
                   /\ UNCHANGED <<pc, update, statusUpdates>>
    /\ UNCHANGED <<now, applications, requests, snapshot, result,
                   statusSince, writes, page>>
    /\ UNCHANGED <<matchVars, serviceVars>>

\* schema.sql line 42: the CHECK constraint on status
StatusCheck(status) == status \in ValidStatuses

StatusNote(u) == Note("status", u.oldStatus)

\* lines 380-397, then lines 116-126 of the loop
updateApplicationStatus(delivered) ==
    /\ pc = "write"
    /\ LET u == update[1]
           i == u.applicationId
       IN  /\ applications' =
                 IF delivered /\ StatusCheck(u.newStatus)
                 THEN [applications EXCEPT ![i].status = u.newStatus,
                                           ![i].updated_at = now,
                                           ![i].notes = <<StatusNote(u)>>]
                 ELSE applications
           /\ checkedApplications' =
                 Append(checkedApplications, Checked(snapshot[idx], update))
    /\ writes' = Append(writes, update[1].applicationId)
    /\ failures' = IF delivered /\ StatusCheck(update[1].newStatus)
                   THEN failures
                   ELSE failures \cup {update[1].applicationId}
    /\ update' = << >>
    /\ idx' = NextIndex(idx)
    /\ pc' = "loop"
    /\ statusSince' = SinceAfter(applications')
    /\ UNCHANGED <<now, requests, snapshot, statusUpdates, result, trace, page>>
    /\ UNCHANGED <<matchVars, serviceVars>>

\* lines 134-146: the response is returned; the lists of the run go with it
RunFinish ==
    /\ pc = "loop"
    /\ idx > Len(snapshot)
    /\ pc' = "done"
    /\ result' = "success"
    /\ snapshot' = << >>
    /\ idx' = 1
    /\ trace' = NoTrace
    /\ statusUpdates' = << >>
    /\ checkedApplications' = << >>
    /\ writes' = << >>
    /\ failures' = {}
    /\ UNCHANGED <<now, applications, requests, update, statusSince, page>>
    /\ UNCHANGED <<matchVars, serviceVars>>

\* ------------------------------------------------- tracker page (client)
\* loadApplications, lines 49-148: the first two rows of its list
MockApplications ==
    <<[id |-> 1, status |-> "pending", applied_on |-> NoTime,
       created_at |-> now, updated_at |-> now],
      [id |-> 2, status |-> "submitted",
       applied_on |-> At(now - 2 * HoursPerDay),
       created_at |-> now - 3 * HoursPerDay,
       updated_at |-> now - 2 * HoursPerDay]>>

loadApplications ==
    /\ page = << >>
    /\ page' = MockApplications
    /\ UNCHANGED <<now, applications, requests, runVars, statusSince, writes,
                   failures>>
    /\ UNCHANGED <<matchVars, serviceVars>>

\* updateApplicationStatus of the page, lines 150-171
PageStatusChange(app, newStatus) ==
    [app EXCEPT !.status = newStatus,
                !.applied_on = IF newStatus = "submitted" THEN At(now) ELSE @,
                !.updated_at = now]

PageUpdateApplicationStatus(applicationId, newStatus) ==
    /\ \E i \in 1..Len(page) : page[i].id = applicationId
    /\ page' = [i \in 1..Len(page) |->
                   IF page[i].id = applicationId
                   THEN PageStatusChange(page[i], newStatus)
                   ELSE page[i]]
    /\ UNCHANGED <<now, applications, requests, runVars, statusSince, writes,
                   failures>>
    /\ UNCHANGED <<matchVars, serviceVars>>

PostStatuses == {NoStatus, "submitted"}
PutStatuses == {"submitted", "reviewing", "accepted"}

Next ==
    \/ \E t \in Instants : Tick(t)
    \/ \E u \in Users, k \in Internships, s \in PostStatuses,
          n \in {NoNotes} : PostApplication(u, k, s, n)
    \/ \E a \in 1..MaxApps, u \in Users, s \in PutStatuses :
          PutApplication(a, u, s, FALSE, NoNotes)
    \/ \E a \in 1..MaxApps, u \in Users :
          PutApplication(a, u, NoStatus, TRUE, <<UserNote>>)
    \/ \E u \in Users, k \in Internships : trackManualApplication(u, k)
    \/ \E u \in Users, k \in Internships, l \in BOOLEAN, ok \in BOOLEAN :
          submitAutomatedApplication(u, k, l, ok)
    \/ \E u \in Users, f \in BOOLEAN : RunStart(u, f)
    \/ RunSkip
    \/ \E lk \in LookupOutcomes : RunLookupFailed(lk)
    \/ \E lk \in LookupOutcomes, p \in PortalOutcomes, a \in ApiOutcomes,
          l \in LLMResponses : RunCheck(lk, p, a, l)
    \/ \E d \in BOOLEAN : updateApplicationStatus(d)
    \/ RunFinish

Spec == Init /\ [][Next]_vars

\* the tracker page keeps its list in the browser; it shares only the clock
NextPage ==
    \/ \E t \in Instants : Tick(t)
    \/ loadApplications
    \/ \E a \in 1..2, s \in ValidStatuses : PageUpdateApplicationStatus(a, s)

PageSpec == Init /\ [][NextPage]_vars

\* ------------------------------------------ a run over an existing table
\* a row as POST /api/apply (manual tracking) left it at hour 0
SeedRow(i) ==
    [id |-> i, user_id |-> "u1", internship_id |-> 1, status |-> "submitted",
     notes |-> <<ManualNote>>, applied_on |-> At(0), created_at |-> 0,
     updated_at |-> 0]

InitRun ==
    /\ now = 0
    /\ applications = [i \in 1..MaxListed |-> SeedRow(i)]
    /\ requests = MaxListed
    /\ pc = "idle"
    /\ snapshot = << >>
    /\ idx = 1
    /\ update = << >>
    /\ statusUpdates = << >>
    /\ checkedApplications = << >>
    /\ result = "none"
    /\ trace = NoTrace
    /\ statusSince = [i \in 1..MaxListed |-> 0]
    /\ writes = << >>
    /\ failures = {}
    /\ page = << >>
    /\ InitMatcher
    /\ InitSimilarity
    /\ InitOthers

NextRun ==
    \/ \E t \in Instants : Tick(t)
    \/ \E u \in Users, f \in BOOLEAN : RunStart(u, f)
    \/ RunSkip
    \/ \E lk \in LookupOutcomes : RunLookupFailed(lk)
    \/ \E lk \in LookupOutcomes, p \in PortalOutcomes, a \in ApiOutcomes,
          l \in LLMResponses : RunCheck(lk, p, a, l)
    \/ \E d \in BOOLEAN : updateApplicationStatus(d)
    \/ RunFinish

RunSpec == InitRun /\ [][NextRun]_vars
\* ------------------------------------------- POST /api/match, MatcherAgent
\* postings fetched for one match request
MaxPostings == 2

\* results of arithmetic on a missing key, and a score that was never written
NaN == -1000001
Undefined == -1000002
Thrown == -1000003
NoScore == -1000004

IsNumber(x) == x \notin {NaN, Undefined}
Times(a, b) == IF IsNumber(a) /\ IsNumber(b) THEN a * b ELSE NaN
Plus(a, b) == IF IsNumber(a) /\ IsNumber(b) THEN a + b ELSE NaN
MathMax(a, b) == IF IsNumber(a) /\ IsNumber(b) THEN (IF a >= b THEN a ELSE b) ELSE NaN
MathMin(a, b) == IF IsNumber(a) /\ IsNumber(b) THEN (IF a <= b THEN a ELSE b) ELSE NaN

Preferences(s, e, l, c) == [skills |-> s, experience |-> e, location |-> l, company |-> c]
defaultPreferences == Preferences(4, 3, 2, 1)

\* weight_preferences of a request body: absent, or four weights
WeightPreferences ==
    {NoPreferences, Preferences(4, 3, 2, 1), Preferences(3, 3, 3, 2),
     Preferences(10, 0, 0, 0), Preferences(5, 5, 5, 5)}

\* the user's embedding, and what generateInternshipEmbedding yields for a
\* posting: it throws, or it returns a vector (cosines 1, -1, 0.5, and one
\* of another dimension)
UserEmbedding == <<1, 1, 1, 1>>
NoEmbedding == <<Thrown>>
InternshipEmbeddings ==
    {<<1, 1, 1, 1>>, <<-1, -1, -1, -1>>, <<1, 0, 0, 0>>, <<1>>}

\* sum of a[i] * b[i] over the first n components
RECURSIVE DotProduct(_, _, _)
DotProduct(a, b, n) ==
    IF n = 0 THEN 0 ELSE DotProduct(a, b, n - 1) + a[n] * b[n]

\* the largest r in lo..hi with r * r <= x
RECURSIVE Root(_, _, _)
Root(lo, hi, x) ==
    IF lo = hi THEN lo
    ELSE LET mid == (lo + hi + 1) \div 2
         IN  IF mid * mid <= x THEN Root(mid, hi, x) ELSE Root(lo, mid - 1, x)

\* Math.sqrt of a sum of squares, in hundredths
MathSqrt(x) == Root(0, 100 * (x + 1), x * 10000)

\* n / d for d > 0, cut towards zero
Quotient(n, d) == IF n >= 0 THEN n \div d ELSE -((-n) \div d)

\* lines 107-113 without the test of 109: a zero norm divides 0 by 0
calculateSimilarity_NoZeroCheck(userEmbedding, internshipEmbedding) ==
    IF Len(userEmbedding) # Len(internshipEmbedding)
    THEN Thrown
    ELSE LET n == Len(userEmbedding)
             dotProduct == DotProduct(userEmbedding, internshipEmbedding, n)
             normA == MathSqrt(DotProduct(userEmbedding, userEmbedding, n))
             normB == MathSqrt(DotProduct(internshipEmbedding,
                                          internshipEmbedding, n))
         IN  IF normA * normB = 0
             THEN NaN
             ELSE Quotient(dotProduct * 10000000, normA * normB)

\* lines 91-113 without the test of 92: a missing component reads undefined
calculateSimilarity_NoLengthCheck(userEmbedding, internshipEmbedding) ==
    LET n == Len(userEmbedding)
    IN  IF Len(internshipEmbedding) < n
        THEN IF MathSqrt(DotProduct(userEmbedding, userEmbedding, n)) = 0
             THEN 0
             ELSE NaN
        ELSE LET dotProduct == DotProduct(userEmbedding, internshipEmbedding, n)
                 normA == MathSqrt(DotProduct(userEmbedding, userEmbedding, n))
                 normB == MathSqrt(DotProduct(internshipEmbedding,
                                              internshipEmbedding, n))
             IN  IF normA = 0 \/ normB = 0
                 THEN 0
                 ELSE Quotient(dotProduct * 10000000, normA * normB)

\* lines 91-114: the cosine of two vectors, in thousandths
calculateSimilarity(userEmbedding, internshipEmbedding) ==
    IF Len(userEmbedding) # Len(internshipEmbedding)
    THEN Thrown
    ELSE LET n == Len(userEmbedding)
             dotProduct == DotProduct(userEmbedding, internshipEmbedding, n)
             normA == MathSqrt(DotProduct(userEmbedding, userEmbedding, n))
             normB == MathSqrt(DotProduct(internshipEmbedding,
                                          internshipEmbedding, n))
         IN  IF normA = 0 \/ normB = 0
             THEN 0
             ELSE Quotient(dotProduct * 10000000, normA * normB)

Analysis(kind, s, e, l, c) ==
    [kind |-> kind, skillsMatch |-> s, experienceMatch |-> e,
     locationMatch |-> l, companyFit |-> c]
\* what the chat completion answers: the call fails, the content is empty,
\* is no JSON, or is a JSON object in which a key may be missing
Analyses ==
    {Analysis(k, Undefined, Undefined, Undefined, Undefined) :
        k \in {"throw", "empty", "notjson"}}
    \cup {Analysis("json", v, v, v, v) : v \in {0, 5, 10, 20}}
    \cup {Analysis("json", Undefined, 10, 10, 10)}
NoAnalysis == Analysis("none", Undefined, Undefined, Undefined, Undefined)

\* JavaScript's a || b on a number
OrDefault(a, b) == IF a = 0 THEN b ELSE a

\* line 58: the sum of the values of weight_preferences
Total(w) == w.skills + w.experience + w.location + w.company

Abs(x) == IF x < 0 THEN -x ELSE x

\* lines 60-65: more than 0.1 away from 1.0
WeightsRejected(w) == Abs(Total(w) - 10) > 1

\* lines 67-72
EffectivePreferences(w) ==
    Preferences(OrDefault(w.skills, defaultPreferences.skills),
                OrDefault(w.experience, defaultPreferences.experience),
                OrDefault(w.location, defaultPreferences.location),
                OrDefault(w.company, defaultPreferences.company))

Rejection(status) ==
    [status |-> status, success |-> FALSE, data |-> << >>, processed |-> 0,
     highMatches |-> 0, mediumMatches |-> 0, lowMatches |-> 0]

\* POST of part_001, lines 25-84, and lines 126-156 of the matcher: found
\* says that the user, the postings and the user embedding were obtained
MatchPost(admitted, hasUserId, weight_preferences, found, n) ==
    /\ mpc = "idle"
    /\ supplied' = weight_preferences
    /\ IF ~admitted
       THEN /\ matchResult' = Rejection(429)
            /\ mpc' = "done"
            /\ UNCHANGED <<preferences, internships, match_score, analysisOf>>
       ELSE IF ~hasUserId \/ (weight_preferences # NoPreferences
                               /\ WeightsRejected(weight_preferences))
       THEN /\ matchResult' = Rejection(400)
            /\ mpc' = "done"
            /\ UNCHANGED <<preferences, internships, match_score, analysisOf>>
       ELSE /\ preferences' = IF weight_preferences = NoPreferences
                              THEN defaultPreferences
                              ELSE EffectivePreferences(weight_preferences)
            /\ IF found
               THEN /\ internships' = [i \in 1..n |-> i]
                    /\ match_score' = [i \in 1..n |-> NoScore]
                    /\ analysisOf' = [i \in 1..n |-> NoAnalysis]
                    /\ mpc' = "loop"
                    /\ matchResult' = NoResult
               ELSE /\ matchResult' = Rejection(500)
                    /\ mpc' = "done"
                    /\ UNCHANGED <<internships, match_score, analysisOf>>
    /\ UNCHANGED <<mi, matchingResults, highMatches, mediumMatches, lowMatches,
                   unscored, embeddingOf>>
    /\ UNCHANGED <<trackerVars, serviceVars>>

\* lines 297 with the two factors exchanged
calculateDetailedMatchScore_SwappedBlend(baseSimilarity, prefs, analysis) ==
    IF analysis.kind \in {"throw", "notjson"} THEN baseSimilarity
    ELSE LET weightedScore ==
                 Plus(Plus(Plus(Times(analysis.skillsMatch, prefs.skills),
                                Times(analysis.experienceMatch, prefs.experience)),
                           Times(analysis.locationMatch, prefs.location)),
                      Times(analysis.companyFit, prefs.company))
             finalScore == Plus(Times(baseSimilarity, 7) \div 10,
                                Times(weightedScore, 3))
         IN  MathMin(1000, MathMax(0, finalScore))

\* the catch blocks of lines 300-309 throwing on instead of falling back
calculateDetailedMatchScore_Rethrow(baseSimilarity, prefs, analysis) ==
    IF analysis.kind \in {"throw", "notjson"} THEN Thrown
    ELSE LET weightedScore ==
                 Plus(Plus(Plus(Times(analysis.skillsMatch, prefs.skills),
                                Times(analysis.experienceMatch, prefs.experience)),
                           Times(analysis.locationMatch, prefs.location)),
                      Times(analysis.companyFit, prefs.company))
             finalScore == Plus(Times(baseSimilarity, 3) \div 10,
                                Times(weightedScore, 7))
         IN  MathMin(1000, MathMax(0, finalScore))

\* lines 225-310; baseSimilarity and the result are in thousandths
calculateDetailedMatchScore(baseSimilarity, prefs, analysis) ==
    IF analysis.kind \in {"throw", "notjson"} THEN baseSimilarity
    ELSE LET weightedScore ==
                 Plus(Plus(Plus(Times(analysis.skillsMatch, prefs.skills),
                                Times(analysis.experienceMatch, prefs.experience)),
                           Times(analysis.locationMatch, prefs.location)),
                      Times(analysis.companyFit, prefs.company))
             finalScore == Plus(Times(baseSimilarity, 3) \div 10,
                                Times(weightedScore, 7))
         IN  MathMin(1000, MathMax(0, finalScore))

\* line 189 with 0.5 for 0.6
Bucket_MediumFromHalf(detailedScore) ==
    IF ~IsNumber(detailedScore) THEN "none"
    ELSE IF detailedScore >= 800 THEN "high"
    ELSE IF detailedScore >= 500 THEN "medium"
    ELSE IF detailedScore >= 400 THEN "low"
    ELSE "none"

\* lines 187-193, with the comparisons of JavaScript (false on NaN)
Bucket(detailedScore) ==
    IF ~IsNumber(detailedScore) THEN "none"
    ELSE IF detailedScore >= 800 THEN "high"
    ELSE IF detailedScore >= 600 THEN "medium"
    ELSE IF detailedScore >= 400 THEN "low"
    ELSE "none"

\* the value the column keeps: a NaN travels as JSON null, a number is
\* rounded to the two decimals of DECIMAL(3,2)
Stored(detailedScore) ==
    IF ~IsNumber(detailedScore) THEN NoScore
    ELSE IF detailedScore >= 0 THEN ((detailedScore + 5) \div 10) * 10
    ELSE -(((5 - detailedScore) \div 10) * 10)

\* line 163 for each embedding a posting can have
SimilarityOf ==
    [e \in InternshipEmbeddings |-> calculateSimilarity(UserEmbedding, e)]

MatchingResult(id, detailedScore, baseSimilarity) ==
    [internshipId |-> id, matchScore |-> detailedScore,
     baseSimilarity |-> baseSimilarity]

\* lines 157-199: one posting
MatchPosting(internshipEmbedding, analysis, delivered) ==
    /\ mpc = "loop"
    /\ mi <= Len(internships)
    /\ LET id == internships[mi]
           baseSimilarity == IF internshipEmbedding = NoEmbedding
                             THEN Thrown
                             ELSE SimilarityOf[internshipEmbedding]
           embedded == baseSimilarity # Thrown
           detailedScore == IF embedded
                            THEN calculateDetailedMatchScore(baseSimilarity,
                                                            preferences, analysis)
                            ELSE Thrown
       IN  /\ ~embedded => (analysis = NoAnalysis /\ delivered)
           /\ embedded => analysis \in Analyses
           /\ embeddingOf' = Append(embeddingOf, internshipEmbedding)
           /\ analysisOf' = [analysisOf EXCEPT ![id] = analysis]
           /\ unscored' = IF embedded THEN unscored ELSE unscored \cup {id}
           /\ IF detailedScore = Thrown
              THEN UNCHANGED <<match_score, matchingResults, highMatches,
                               mediumMatches, lowMatches>>
              ELSE /\ match_score' = IF delivered
                                     THEN [match_score EXCEPT ![id] = Stored(detailedScore)]
                                     ELSE match_score
                   /\ matchingResults' =
                         Append(matchingResults,
                                MatchingResult(id, detailedScore, baseSimilarity))
                   /\ highMatches' = highMatches
                         + (IF Bucket(detailedScore) = "high" THEN 1 ELSE 0)
                   /\ mediumMatches' = mediumMatches
                         + (IF Bucket(detailedScore) = "medium" THEN 1 ELSE 0)
                   /\ lowMatches' = lowMatches
                         + (IF Bucket(detailedScore) = "low" THEN 1 ELSE 0)
    /\ mi' = mi + 1
    /\ UNCHANGED <<mpc, supplied, preferences, internships, matchResult>>
    /\ UNCHANGED <<trackerVars, serviceVars>>

\* line 202: sort with the comparator b.matchScore - a.matchScore; a list
\* without NaN comes out descending with equal scores in their old order,
\* a list with a NaN score in an order the engine chooses
Orderings(n) ==
    {f \in [1..n -> 1..n] : \A i, j \in 1..n : i # j => f[i] # f[j]}

SortOutcomes(list) ==
    LET n == Len(list)
        hasNaN == \E k \in 1..n : ~IsNumber(list[k].matchScore)
        ordered(f) == \A i, j \in 1..n : i < j =>
                         \/ list[f[i]].matchScore > list[f[j]].matchScore
                         \/ /\ list[f[i]].matchScore = list[f[j]].matchScore
                            /\ f[i] < f[j]
    IN  {[k \in 1..n |-> list[f[k]]] :
            f \in {g \in Orderings(n) : hasNaN \/ ordered(g)}}

\* lines 201-214, then lines 86-102 of the route
MatchFinish ==
    /\ mpc = "loop"
    /\ mi > Len(internships)
    /\ \E sorted \in SortOutcomes(matchingResults) :
          matchResult' = [status |-> 200, success |-> TRUE, data |-> sorted,
                          processed |-> Len(internships),
                          highMatches |-> highMatches,
                          mediumMatches |-> mediumMatches,
                          lowMatches |-> lowMatches]
    /\ mpc' = "done"
    /\ UNCHANGED <<supplied, preferences, internships, mi, matchingResults,
                   highMatches, mediumMatches, lowMatches, match_score,
                   analysisOf, unscored, embeddingOf>>
    /\ UNCHANGED <<trackerVars, serviceVars>>

NextMatch ==
    \/ \E ad \in BOOLEAN, hu \in BOOLEAN, w \in WeightPreferences,
          f \in BOOLEAN, n \in 0..MaxPostings : MatchPost(ad, hu, w, f, n)
    \/ \E e \in InternshipEmbeddings \cup {NoEmbedding},
          a \in Analyses \cup {NoAnalysis}, d \in BOOLEAN : MatchPosting(e, a, d)
    \/ MatchFinish

MatchSpec == Init /\ [][NextMatch]_vars

\* ------------------------------------- create requests, select then insert
MaxCreates == 2

CreateRequest(request, route, user_id, internship_id, status, auto_apply) ==
    [request |-> request, route |-> route, user_id |-> user_id,
     internship_id |-> internship_id, status |-> status,
     auto_apply |-> auto_apply]

\* part_002:108-121 and route.ts:224-237: the select of the existing record;
\* a request that finds none it must refuse goes on to its insert
CreateSelect(route, user_id, internship_id, status, auto_apply) ==
    /\ requests < MaxCreates
    /\ requests' = requests + 1
    /\ route \in {"applications", "apply"}
    /\ route = "applications" =>
          (~auto_apply /\ Cardinality(Matching(user_id, internship_id)) # 1)
    /\ route = "apply" =>
          (status = NoStatus /\ ~AlreadySubmitted(user_id, internship_id))
    /\ creating' = creating \cup
          {CreateRequest(requests + 1, route, user_id, internship_id, status,
                         auto_apply)}
    /\ UNCHANGED <<now, applications, runVars, statusSince, writes, failures,
                   page>>
    /\ UNCHANGED <<matchVars, simVars, clockVars, limitVars, breakerVars,
                   retryVars, realtimeVars>>

\* part_002:124-135, route.ts:342-353 and 382-392: the insert
CreateInsert(r) ==
    /\ r \in creating
    /\ creating' = creating \ {r}
    /\ applications' = Append(applications,
          IF r.route = "applications"
          THEN NewRow(r.user_id, r.internship_id,
                      IF r.status = NoStatus THEN "pending" ELSE r.status,
                      NoNotes,
                      IF r.status = "submitted" THEN At(now) ELSE NoTime)
          ELSE NewRow(r.user_id, r.internship_id, "submitted",
                      IF r.auto_apply THEN <<AutomatedNote>> ELSE <<ManualNote>>,
                      At(now)))
    /\ statusSince' = SinceAfter(applications')
    /\ UNCHANGED <<now, requests, runVars, writes, failures, page>>
    /\ UNCHANGED <<matchVars, simVars, clockVars, limitVars, breakerVars,
                   retryVars, realtimeVars>>

NextCreate ==
    \/ \E t \in Instants : Tick(t)
    \/ \E route \in {"applications", "apply"}, u \in Users, i \in Internships,
          st \in {NoStatus, "submitted"}, auto \in BOOLEAN :
          CreateSelect(route, u, i, st, auto)
    \/ \E r \in creating : CreateInsert(r)

CreateSpec == Init /\ [][NextCreate]_vars

\* ------------------------------------ POST /api/scrape and the middleware
\* time of the rate limiters in minutes
MaxClock == 2
\* requests the middleware has counted in its records, all IPs together
MaxHits == 7
windowMs == 1
ScrapeLimit == 5
DefaultLimit == 100

TickClock ==
    /\ clock < MaxClock
    /\ clock' = clock + 1
    /\ UNCHANGED <<trackerVars, matchVars, simVars, createVars, limitVars,
                   breakerVars, retryVars, realtimeVars>>

\* route.ts:18 with > for >=
rateLimit_OneMore(record, limit, t) ==
    IF record = NoRecord \/ t > record.resetTime
    THEN [ok |-> TRUE, record |-> [count |-> 1, resetTime |-> t + windowMs]]
    ELSE IF record.count > limit
    THEN [ok |-> FALSE, record |-> record]
    ELSE [ok |-> TRUE, record |-> [record EXCEPT !.count = @ + 1]]

\* route.ts:9-24 and middleware.ts:9-26: whether the request passes, and the
\* entry of the Map afterwards
rateLimit(record, limit, t) ==
    IF record = NoRecord \/ t > record.resetTime
    THEN [ok |-> TRUE, record |-> [count |-> 1, resetTime |-> t + windowMs]]
    ELSE IF record.count >= limit
    THEN [ok |-> FALSE, record |-> record]
    ELSE [ok |-> TRUE, record |-> [record EXCEPT !.count = @ + 1]]

Counted(store) == store["a"].count + store["unknown"].count

\* the window of the IP a request of the route arrives in: the one open, or
\* a new one when none is open or the open one is over
WindowAt(h, t) ==
    IF h.opened = -1 \/ t > h.opened + windowMs
    THEN [h EXCEPT !.opened = t, !.admitted = 0]
    ELSE h

\* middleware.ts:46-105 and route.ts:26-107 for one POST /api/scrape
ScrapeRequest(ip, agentBlocked, valid) ==
    /\ LET m == rateLimit(middlewareStore[ip], ScrapeLimit, clock)
           r == rateLimit(rateLimitStore[ip], ScrapeLimit, clock)
           h == WindowAt(hits[ip], clock)
       IN  /\ middlewareStore' = [middlewareStore EXCEPT ![ip] = m.record]
           /\ Counted(middlewareStore') <= MaxHits
           /\ IF ~m.ok
              THEN /\ ~agentBlocked /\ valid
                   /\ answered' = Answer(ip, "middleware", 429, FALSE)
                   /\ UNCHANGED <<rateLimitStore, hits>>
              ELSE IF agentBlocked
              THEN /\ valid
                   /\ answered' = Answer(ip, "middleware", 403, FALSE)
                   /\ UNCHANGED <<rateLimitStore, hits>>
              ELSE /\ rateLimitStore' = [rateLimitStore EXCEPT ![ip] = r.record]
                   /\ IF ~r.ok
                      THEN /\ valid
                           /\ answered' = Answer(ip, "scrape", 429, FALSE)
                           /\ hits' = [hits EXCEPT ![ip] = h]
                      ELSE /\ answered' =
                                Answer(ip, "scrape",
                                       IF valid THEN 200 ELSE 400, valid)
                           /\ hits' = [hits EXCEPT ![ip] =
                                          [h EXCEPT !.admitted = @ + 1]]
    /\ UNCHANGED <<trackerVars, matchVars, simVars, createVars, clockVars,
                   breakerVars, retryVars, realtimeVars>>

\* middleware.ts:46-72 for a request of another API route
ApiRequest(ip) ==
    /\ LET m == rateLimit(middlewareStore[ip], DefaultLimit, clock)
       IN  /\ middlewareStore' = [middlewareStore EXCEPT ![ip] = m.record]
           /\ Counted(middlewareStore') <= MaxHits
    /\ answered' = Answer(ip, "other", 200, FALSE)
    /\ UNCHANGED <<rateLimitStore, hits>>
    /\ UNCHANGED <<trackerVars, matchVars, simVars, createVars, clockVars,
                   breakerVars, retryVars, realtimeVars>>

\* middleware.ts:29-36: the records that are over leave the Map (the timer
\* runs from the load of the module, at no fixed time of the clock)
Cleanup ==
    /\ \E ip \in Ips : middlewareStore[ip] # NoRecord
                         /\ clock > middlewareStore[ip].resetTime
    /\ middlewareStore' =
          [ip \in Ips |-> IF clock > middlewareStore[ip].resetTime
                          THEN NoRecord ELSE middlewareStore[ip]]
    /\ UNCHANGED <<rateLimitStore, hits, answered>>
    /\ UNCHANGED <<trackerVars, matchVars, simVars, createVars, clockVars,
                   breakerVars, retryVars, realtimeVars>>

NextLimit ==
    \/ TickClock
    \/ \E ip \in Ips, b \in BOOLEAN, v \in BOOLEAN : ScrapeRequest(ip, b, v)
    \/ \E ip \in Ips : ApiRequest(ip)
    \/ Cleanup

LimitSpec == Init /\ [][NextLimit]_vars

\* ------------------------------------------------------- CircuitBreaker
\* operations invoked and not yet settled
MaxCalls == 2
\* new CircuitBreaker(5, 60000), the timeout in minutes
threshold == 5
timeout == 1

\* line 283 with >= for >
Expired_AtTimeout(b, t) == t - b.lastFailureTime >= timeout

\* line 283: the breaker has been open for longer than its timeout
Expired(b, t) == t - b.lastFailureTime > timeout

\* lines 281-288: execute up to the call of the operation
ExecuteBegin ==
    /\ calls < MaxCalls
    /\ IF breaker.state = "OPEN" /\ ~Expired(breaker, clock)
       THEN /\ lastCall' = "rejected"
            /\ UNCHANGED <<breaker, calls>>
       ELSE /\ breaker' = IF breaker.state = "OPEN"
                          THEN [breaker EXCEPT !.state = "HALF_OPEN"]
                          ELSE breaker
            /\ calls' = calls + 1
            /\ lastCall' = "invoked"
    /\ UNCHANGED streak
    /\ UNCHANGED <<trackerVars, matchVars, simVars, createVars, clockVars,
                   limitVars, retryVars, realtimeVars>>

\* lines 291-293 and 300-303: the operation resolves
OperationSucceeds ==
    /\ calls > 0
    /\ calls' = calls - 1
    /\ breaker' = [breaker EXCEPT !.failures = 0, !.state = "CLOSED"]
    /\ streak' = 0
    /\ lastCall' = "succeeded"
    /\ UNCHANGED <<trackerVars, matchVars, simVars, createVars, clockVars,
                   limitVars, retryVars, realtimeVars>>

\* lines 294-297 and 305-312: the operation rejects
OperationFails ==
    /\ calls > 0
    /\ breaker.failures <= threshold
    /\ calls' = calls - 1
    /\ breaker' = [failures |-> breaker.failures + 1,
                   lastFailureTime |-> clock,
                   state |-> IF breaker.failures + 1 >= threshold
                             THEN "OPEN" ELSE breaker.state]
    /\ streak' = streak + 1
    /\ lastCall' = "failed"
    /\ UNCHANGED <<trackerVars, matchVars, simVars, createVars, clockVars,
                   limitVars, retryVars, realtimeVars>>

\* lines 318-322
reset ==
    /\ breaker' = [failures |-> 0, lastFailureTime |-> 0, state |-> "CLOSED"]
    /\ streak' = 0
    /\ lastCall' = "reset"
    /\ UNCHANGED calls
    /\ UNCHANGED <<trackerVars, matchVars, simVars, createVars, clockVars,
                   limitVars, retryVars, realtimeVars>>

NextBreaker ==
    \/ TickClock
    \/ ExecuteBegin
    \/ OperationSucceeds
    \/ OperationFails
    \/ reset

BreakerSpec == Init /\ [][NextBreaker]_vars

\* ----------------------------------------------------------------- retry
MaxAttempts == 4
Errors == {"e1", "e2"}
Values == {"v1", "v2"}

\* lines 333-340: the call, up to the first test of the loop
RetryCall(maxAttempts) ==
    /\ retry.pc = "idle"
    /\ retry' = IF 1 <= maxAttempts
                THEN [NoRetry EXCEPT !.pc = "invoke",
                                     !.maxAttempts = maxAttempts,
                                     !.attempt = 1]
                ELSE [NoRetry EXCEPT !.pc = "done",
                                     !.maxAttempts = maxAttempts,
                                     !.attempt = 1,
                                     !.outcome = "thrown"]
    /\ UNCHANGED attempts
    /\ UNCHANGED <<trackerVars, matchVars, simVars, createVars, clockVars,
                   limitVars, breakerVars, realtimeVars>>

\* line 346 with the test one attempt early
LastAttempt_Early(r) == r.attempt + 1 >= r.maxAttempts

\* line 346
LastAttempt(r) == r.attempt = r.maxAttempts

\* lines 341-348 and 356: one invocation of the operation
RetryInvoke(o) ==
    /\ retry.pc = "invoke"
    /\ attempts' = Append(attempts, o)
    /\ retry' = IF o \in Values
                THEN [retry EXCEPT !.pc = "done", !.outcome = "returned",
                                   !.value = o]
                ELSE IF LastAttempt(retry)
                THEN [retry EXCEPT !.pc = "done", !.lastError = o,
                                   !.outcome = "thrown", !.value = o]
                ELSE [retry EXCEPT !.pc = "delay", !.lastError = o]
    /\ UNCHANGED <<trackerVars, matchVars, simVars, createVars, clockVars,
                   limitVars, breakerVars, realtimeVars>>

\* lines 350-352 and the loop's step: the delay is over
RetryDelay ==
    /\ retry.pc = "delay"
    /\ retry' = IF retry.attempt + 1 <= retry.maxAttempts
                THEN [retry EXCEPT !.pc = "invoke", !.attempt = @ + 1]
                ELSE [retry EXCEPT !.pc = "done", !.attempt = @ + 1,
                                   !.outcome = "thrown",
                                   !.value = retry.lastError]
    /\ UNCHANGED attempts
    /\ UNCHANGED <<trackerVars, matchVars, simVars, createVars, clockVars,
                   limitVars, breakerVars, realtimeVars>>

NextRetry ==
    \/ \E m \in 0..MaxAttempts : RetryCall(m)
    \/ \E o \in Values \cup Errors : RetryInvoke(o)
    \/ RetryDelay

RetrySpec == Init /\ [][NextRetry]_vars

\* -------------------------------------------------------- RealtimeManager
MaxSubscriptions == 3
ChannelNames == {"applications_u1", "internships_u1"}
Callbacks == {"cb1", "cb2"}

Subscription(channelName, callback) ==
    [channelName |-> channelName, callback |-> callback, active |-> TRUE]

\* part_006:186-244 (and 247-305, 308-366): subscribeTo...
Subscribe(channelName, callback) ==
    /\ Len(subscriptions) < MaxSubscriptions
    /\ callbacks' =
          IF channelName \notin DOMAIN callbacks
          THEN callbacks @@ (channelName :> <<callback>>)
          ELSE IF callback \in Range(callbacks[channelName])
          THEN callbacks
          ELSE [callbacks EXCEPT ![channelName] = Append(@, callback)]
    /\ channels' = channels \cup {channelName}
    /\ subscriptions' = Append(subscriptions, Subscription(channelName, callback))
    /\ UNCHANGED reached
    /\ UNCHANGED <<trackerVars, matchVars, simVars, createVars, clockVars,
                   limitVars, breakerVars, retryVars>>

Without(list, callback) == SelectSeq(list, LAMBDA cb : cb # callback)

\* part_006:241-243 and 369-384: the function a subscribe call returned
Unsubscribe(k) ==
    /\ k \in 1..Len(subscriptions)
    /\ LET channelName == subscriptions[k].channelName
           callback == subscriptions[k].callback
       IN  IF channelName \in DOMAIN callbacks
           THEN LET left == Without(callbacks[channelName], callback)
                IN  IF left = << >>
                    THEN /\ channels' = channels \ {channelName}
                         /\ callbacks' = [c \in DOMAIN callbacks \ {channelName}
                                             |-> callbacks[c]]
                    ELSE /\ callbacks' = [callbacks EXCEPT ![channelName] = left]
                         /\ UNCHANGED channels
           ELSE UNCHANGED <<channels, callbacks>>
    /\ subscriptions' = [subscriptions EXCEPT ![k].active = FALSE]
    /\ UNCHANGED reached
    /\ UNCHANGED <<trackerVars, matchVars, simVars, createVars, clockVars,
                   limitVars, breakerVars, retryVars>>

\* part_006:217-227: the callbacks run for one event, of which one may throw
Notify(list, throwing) == Range(list)

\* part_006:202-228: the channel delivers a change of its table
RealtimeEvent(channelName, throwing) ==
    /\ channelName \in channels
    /\ LET list == IF channelName \in DOMAIN callbacks
                   THEN callbacks[channelName] ELSE << >>
       IN  /\ throwing \in Range(list) \cup {"none"}
           /\ reached' = [channelName |-> channelName,
                          invoked |-> Notify(list, throwing)]
    /\ UNCHANGED <<channels, callbacks, subscriptions>>
    /\ UNCHANGED <<trackerVars, matchVars, simVars, createVars, clockVars,
                   limitVars, breakerVars, retryVars>>

NextRealtime ==
    \/ \E c \in ChannelNames, cb \in Callbacks : Subscribe(c, cb)
    \/ \E k \in 1..MaxSubscriptions : Unsubscribe(k)
    \/ \E c \in ChannelNames, cb \in Callbacks \cup {"none"} : RealtimeEvent(c, cb)

RealtimeSpec == Init /\ [][NextRealtime]_vars

\* ------------------------------------------- calculateSimilarity on its own
MaxDim == 2
Components == {-1, 0, 1}
Vectors == UNION {[1..n -> Components] : n \in 0..MaxDim}

InitSim ==
    /\ InitTracker
    /\ InitMatcher
    /\ embeddingA \in Vectors
    /\ embeddingB \in Vectors
    /\ similarity = NotCalled
    /\ InitOthers

ApplySimilarity ==
    /\ similarity = NotCalled
    /\ similarity' = calculateSimilarity(embeddingA, embeddingB)
    /\ UNCHANGED <<embeddingA, embeddingB>>
    /\ UNCHANGED <<trackerVars, matchVars, createVars, clockVars, limitVars,
                   breakerVars, retryVars, realtimeVars>>

NextSim == ApplySimilarity

SimSpec == InitSim /\ [][NextSim]_vars

\* =================================================================== claims
\* the row of the list the current iteration is about
TraceValid ==
    /\ trace.applicationId # 0
    /\ \E r \in Range(snapshot) : r.id = trace.applicationId
TraceRow == CHOOSE r \in Range(snapshot) : r.id = trace.applicationId

UpdatesFor(applicationId) ==
    {k \in 1..Len(statusUpdates) : statusUpdates[k].applicationId = applicationId}

\* C1: an application that is accepted or rejected when the run reads it gets
\* no StatusUpdate and no write from the run, whatever the sources report.
C1_TerminalImmutable ==
    /\ \A k \in 1..Len(statusUpdates) :
          statusUpdates[k].oldStatus \notin TerminalStatuses
    /\ update # << >> => update[1].oldStatus \notin TerminalStatuses

\* C2: every stored status is one of the five, and a source that proposes a
\* status outside the five produces no StatusUpdate and no write.
C2_InvalidStatusRejected ==
    /\ \A i \in 1..Len(applications) : applications[i].status \in ValidStatuses
    /\ \A k \in 1..Len(statusUpdates) :
          statusUpdates[k].newStatus \in ValidStatuses
    /\ update # << >> => update[1].newStatus \in ValidStatuses

\* C3: an application whose updated_at is less than 6 hours before the check
\* is passed over: no internship lookup, no portal, API or LLM call, no
\* StatusUpdate, no write, and no entry in checkedApplications.
C3_DebounceSkips ==
    (TraceValid /\ trace.at - TraceRow.updated_at < DebounceHours) =>
        /\ ~trace.lookup
        /\ trace.consulted = << >>
        /\ ~trace.llm
        /\ UpdatesFor(trace.applicationId) = {}
        /\ trace.applicationId \notin Range(writes)
        /\ \A k \in 1..Len(checkedApplications) :
              checkedApplications[k].applicationId # trace.applicationId

C3_Witness ==
    /\ TraceValid
    /\ trace.at - TraceRow.updated_at < DebounceHours
    /\ trace.skipped
    /\ idx > 1
Rank(src) == CASE src = "portal" -> 1 [] src = "api" -> 2 [] src = "prediction" -> 3
SourceTag(src) ==
    CASE src = "portal" -> "scraping" [] src = "api" -> "api"
      [] src = "prediction" -> "manual"
Proposes(j) == trace.proposals[j] \notin {NoStatus, TraceRow.status}

\* C4: the sources are consulted in the order portal, company API,
\* prediction; a source that proposes a status different from the current one
\* is the last one consulted, and the StatusUpdate carries its status and tag.
C4_SourcePriority ==
    (TraceValid /\ trace.consulted # << >>) =>
        LET c == trace.consulted
            p == trace.proposals
            n == Len(c)
        IN  /\ \A j, k \in 1..n : j < k => Rank(c[j]) < Rank(c[k])
            /\ \A j \in 1..n : c[j] = "prediction" => (j > 1 /\ c[j - 1] = "api")
            /\ \A j \in 1..n : Proposes(j) => j = n
            /\ Proposes(n) <=> UpdatesFor(trace.applicationId) # {}
            /\ \A k \in UpdatesFor(trace.applicationId) :
                  /\ statusUpdates[k].newStatus = p[n]
                  /\ statusUpdates[k].source = SourceTag(c[n])

C4_Witness ==
    /\ TraceValid
    /\ trace.consulted = <<"portal", "api">>
    /\ ~Proposes(1)
    /\ Proposes(2)
    /\ pc = "write"
    /\ update[1].source = "api"

\* C5: a reconciliation write that is applied writes a note naming the status
\* it replaced, also when PUT /api/applications changed the status after the
\* run read the list.
C5_NoSilentOverwrite ==
    [][(pc = "write" /\ pc' # "write" /\ applications' # applications) =>
          LET i == update[1].applicationId
          IN  applications'[i].notes[Len(applications'[i].notes)].old
                 = applications[i].status]_vars

\* C6: applied_on is set by the first transition into submitted, and a value
\* once set is never changed or cleared, in the table and on the tracker page.
C6_AppliedOnSetOnce ==
    [][/\ \A i \in 1..Len(applications) :
            /\ applications[i].applied_on # NoTime =>
                  applications'[i].applied_on = applications[i].applied_on
            /\ (applications[i].status # "submitted"
                  /\ applications'[i].status = "submitted") =>
                  applications'[i].applied_on # NoTime
       /\ \A i \in 1..Len(page) :
            /\ page[i].applied_on # NoTime =>
                  page'[i].applied_on = page[i].applied_on
            /\ (page[i].status # "submitted" /\ page'[i].status = "submitted") =>
                  page'[i].applied_on # NoTime]_vars

\* C7: when no source proposes a status different from the current one, the
\* run sends no update for the application: no StatusUpdate, no write.
C7_NoProposalNoWrite ==
    (/\ TraceValid
     /\ trace.consulted # << >>
     /\ \A j \in 1..Len(trace.consulted) : ~Proposes(j)) =>
        /\ UpdatesFor(trace.applicationId) = {}
        /\ trace.applicationId \notin Range(writes)
        /\ update = << >>
        /\ pc # "write"

C7_Witness ==
    /\ TraceValid
    /\ trace.consulted # << >>
    /\ \A j \in 1..Len(trace.consulted) : ~Proposes(j)
    /\ \E k \in 1..Len(checkedApplications) :
          /\ checkedApplications[k].applicationId = trace.applicationId
          /\ checkedApplications[k].newStatus = checkedApplications[k].lastStatus

\* C8: a reconciliation write keeps every note text the application had.
C8_NotesAppended ==
    [][(pc = "write" /\ pc' # "write" /\ applications' # applications) =>
          \A i \in 1..Len(applications) :
              Range(applications[i].notes) \subseteq Range(applications'[i].notes)]_vars

\* C9: in one run an application is sent at most one update, and the update
\* sets status, updated_at and notes of that row in one step and touches no
\* other row.
C9_OneWritePerRun ==
    [][(pc = "write" /\ pc' # "write") =>
          LET u == update[1]
              i == u.applicationId
          IN  /\ i \notin Range(writes)
              /\ \A j \in 1..Len(applications) :
                    j # i => applications'[j] = applications[j]
              /\ \/ applications'[i] = applications[i]
                 \/ /\ applications'[i].status = u.newStatus
                    /\ applications'[i].updated_at = now
                    /\ applications'[i].notes = <<StatusNote(u)>>]_vars

C9_Witness ==
    \E k \in 1..Len(writes) :
        /\ applications[writes[k]].notes # << >>
        /\ applications[writes[k]].notes[1].kind = "status"
        /\ applications[writes[k]].status = statusUpdates[k].newStatus

\* C10: a prediction request is made only for an application that is in a
\* non-terminal status and has been in its current status for 3 days or more.
C10_PredictionAfterThreeDays ==
    [][(/\ pc = "loop"
        /\ idx <= Len(snapshot)
        /\ idx' # idx \/ pc' = "write"
        /\ trace'.llm) =>
          LET i == snapshot[idx].id
          IN  /\ applications[i].status \notin TerminalStatuses
              /\ now - statusSince[i] >= MinPredictionDays * HoursPerDay]_vars
\* C11: a failure while checking or updating one application (internship
\* lookup, portal, API, LLM or write) does not end the run: the loop goes on
\* to the next element, every element of the list gets its iteration, and
\* the run ends only after the last one, with success: true.
C11_FailureIsolated ==
    [][/\ (failures' # failures /\ failures' # {} /\ ListFetch \notin failures') =>
            /\ pc' \in {"loop", "write"}
            /\ idx' = IF pc' = "write" THEN idx ELSE idx + 1
            /\ result' = result
            /\ snapshot' = snapshot
       /\ (pc = "loop" /\ idx <= Len(snapshot) /\ (idx' # idx \/ pc' # pc)) =>
            /\ trace'.applicationId = snapshot[idx].id
            /\ idx' \in {idx, idx + 1}
       /\ (pc \in {"loop", "write"} /\ pc' \notin {"loop", "write"}) =>
            /\ pc' = "done"
            /\ result' = "success"
            /\ idx = Len(snapshot) + 1]_vars

C11_Witness ==
    /\ pc = "loop"
    /\ Len(snapshot) >= 2
    /\ idx > Len(snapshot)
    /\ snapshot[1].id \in failures
    /\ \E k \in 1..Len(checkedApplications) :
          checkedApplications[k].applicationId = snapshot[Len(snapshot)].id

\* C12: when the list of applications cannot be fetched the run returns
\* success: false with an error, and has made no internship lookup, no
\* portal, API or LLM call, no StatusUpdate and no write.
C12_FetchFailureFatal ==
    ListFetch \in failures =>
        /\ pc = "failed"
        /\ result = "failure"
        /\ trace = NoTrace
        /\ update = << >>
        /\ statusUpdates = << >>
        /\ checkedApplications = << >>
        /\ writes = << >>

C12_Witness ==
    /\ ListFetch \in failures
    /\ result = "failure"
    /\ Len(applications) > 0
\* C13: every match score in matchingResults, in the returned list and in
\* the match_score column lies in [0, 1] (0 to 1000 thousandths).
C13_ScoreInUnitRange ==
    /\ \A k \in 1..Len(matchingResults) :
          /\ matchingResults[k].matchScore >= 0
          /\ matchingResults[k].matchScore <= 1000
    /\ \A i \in 1..Len(match_score) :
          match_score[i] # NoScore =>
              (match_score[i] >= 0 /\ match_score[i] <= 1000)
    /\ matchResult # NoResult =>
          \A k \in 1..Len(matchResult.data) :
              /\ matchResult.data[k].matchScore >= 0
              /\ matchResult.data[k].matchScore <= 1000

\* C14: when the stage-2 answer is empty, is not JSON, or is JSON without
\* one of the four sub-score keys, the posting's score is the stage-1
\* similarity, and it is a number.
C14_MalformedAnalysisFallsBack ==
    \A k \in 1..Len(matchingResults) :
        LET r == matchingResults[k]
            a == analysisOf[r.internshipId]
        IN  (\/ a.kind \in {"empty", "notjson"}
             \/ /\ a.kind = "json"
                /\ Undefined \in {a.skillsMatch, a.experienceMatch,
                                   a.locationMatch, a.companyFit}) =>
                /\ r.matchScore # NaN
                /\ r.matchScore = r.baseSimilarity

\* C15: a result whose stage 2 failed has the stage-1 similarity as its
\* score, and what a result shows to the caller tells whether its stage 2
\* failed: no result of a failed stage 2 shows the same values as a result
\* of a successful one.
C15_DegradedTagged ==
    /\ \A k \in 1..Len(matchingResults) :
          analysisOf[matchingResults[k].internshipId].kind \in {"throw", "notjson"} =>
              matchingResults[k].matchScore = matchingResults[k].baseSimilarity
    /\ \A j, k \in 1..Len(matchingResults) :
          (/\ matchingResults[j].matchScore = matchingResults[k].matchScore
           /\ matchingResults[j].baseSimilarity = matchingResults[k].baseSimilarity) =>
              (analysisOf[matchingResults[j].internshipId].kind \in {"throw", "notjson"}
                 <=> analysisOf[matchingResults[k].internshipId].kind \in {"throw", "notjson"})

\* C16: with four numeric sub-scores the score is 0.3 * similarity plus
\* 0.7 * (sum of sub-score * weight), clamped to [0, 1]; weights
\* 0.4, 0.3, 0.2, 0.1, sub-scores 1 and similarity 0.5 give 0.85.
C16_FusionFormula ==
    \A k \in 1..Len(matchingResults) :
        LET r == matchingResults[k]
            a == analysisOf[r.internshipId]
            w == preferences
            sum == a.skillsMatch * w.skills + a.experienceMatch * w.experience
                   + a.locationMatch * w.location + a.companyFit * w.company
            final == (3 * r.baseSimilarity) \div 10 + 7 * sum
        IN  (/\ a.kind = "json"
             /\ Undefined \notin {a.skillsMatch, a.experienceMatch,
                                   a.locationMatch, a.companyFit}) =>
                r.matchScore = IF final < 0 THEN 0
                               ELSE IF final > 1000 THEN 1000 ELSE final

C16_Witness ==
    /\ preferences # NoPreferences
    /\ <<preferences.skills, preferences.experience, preferences.location,
         preferences.company>> = <<4, 3, 2, 1>>
    /\ \E k \in 1..Len(matchingResults) :
          /\ analysisOf[matchingResults[k].internshipId].kind = "json"
          /\ analysisOf[matchingResults[k].internshipId].skillsMatch = 10
          /\ analysisOf[matchingResults[k].internshipId].companyFit = 10
          /\ matchingResults[k].baseSimilarity = 500
          /\ matchingResults[k].matchScore = 850

\* C17: when stage 1 succeeds for every posting of a batch, every posting
\* gets a result whatever stage 2 does, and the matcher returns success
\* with exactly as many results as postings.
C17_Stage2FailureKeepsPosting ==
    /\ (mpc = "loop" /\ unscored = {}) => Len(matchingResults) = mi - 1
    /\ (mpc = "done" /\ Len(internships) >= 1 /\ unscored = {}) =>
          /\ matchResult.success
          /\ Len(matchResult.data) = Len(internships)
          /\ {matchResult.data[k].internshipId : k \in 1..Len(matchResult.data)}
                = {internships[i] : i \in 1..Len(internships)}

C17_Witness ==
    /\ mpc = "done"
    /\ Len(internships) >= 2
    /\ unscored = {}
    /\ \E i \in 1..Len(internships) : analysisOf[i].kind = "throw"
    /\ \E i \in 1..Len(internships) : analysisOf[i].kind = "json"
    /\ Len(matchResult.data) = Len(internships)

\* C18: a posting whose stage 1 fails has no result, the other postings
\* have theirs, and the processed count of the returned metadata counts
\* only the postings that were scored.
C18_Stage1FailureSurfaced ==
    (mpc = "done" /\ matchResult.status = 200) =>
        /\ {matchResult.data[k].internshipId : k \in 1..Len(matchResult.data)}
              = {internships[i] : i \in 1..Len(internships)} \ unscored
        /\ matchResult.processed = Len(matchResult.data)

\* C19: when POST /api/match hands caller-supplied weights to the matcher,
\* the weights handed over are the supplied ones and their sum is within 0.1
\* of 1.0.
C19_WeightsValidated ==
    (preferences # NoPreferences /\ supplied # NoPreferences) =>
        /\ preferences = supplied
        /\ preferences.skills + preferences.experience + preferences.location
              + preferences.company >= 9
        /\ preferences.skills + preferences.experience + preferences.location
              + preferences.company <= 11

\* C20: in the returned metadata highMatches counts the results with score
\* >= 0.8, mediumMatches those in [0.6, 0.8), lowMatches those in
\* [0.4, 0.6); a result below 0.4 is in the list and in no counter.
C20_BucketCounts ==
    (mpc = "done" /\ matchResult.status = 200) =>
        LET d == matchResult.data
            n == Len(d)
        IN  /\ matchResult.highMatches =
                  Cardinality({k \in 1..n : d[k].matchScore >= 800})
            /\ matchResult.mediumMatches =
                  Cardinality({k \in 1..n : d[k].matchScore >= 600
                                             /\ d[k].matchScore < 800})
            /\ matchResult.lowMatches =
                  Cardinality({k \in 1..n : d[k].matchScore >= 400
                                             /\ d[k].matchScore < 600})
            /\ matchResult.highMatches + matchResult.mediumMatches
                  + matchResult.lowMatches =
                  Cardinality({k \in 1..n : d[k].matchScore >= 400})

C20_Witness ==
    /\ mpc = "done"
    /\ matchResult.status = 200
    /\ Len(matchResult.data) = 2
    /\ matchResult.highMatches = 1
    /\ matchResult.mediumMatches = 0
    /\ matchResult.lowMatches = 0
    /\ \E k \in 1..2 : /\ matchResult.data[k].matchScore >= 0
                        /\ matchResult.data[k].matchScore < 400
\* C21: the returned list is sorted by score descending, each adjacent pair
\* compares >= (which no NaN does), and it holds exactly the results that
\* were pushed.
C21_SortedDescending ==
    (mpc = "done" /\ matchResult.status = 200) =>
        LET d == matchResult.data
        IN  /\ \A k \in 1..(Len(d) - 1) :
                  /\ d[k].matchScore # NaN
                  /\ d[k + 1].matchScore # NaN
                  /\ d[k].matchScore >= d[k + 1].matchScore
            /\ Len(d) = Len(matchingResults)
            /\ \A r \in Range(matchingResults) :
                  Cardinality({k \in 1..Len(d) : d[k] = r})
                    = Cardinality({k \in 1..Len(matchingResults) :
                                      matchingResults[k] = r})

\* C25: the sources are consulted for an application only when the run is
\* at that element of the list with no write pending, every earlier
\* StatusUpdate has had its write, and all entries made so far belong to
\* earlier elements.
C25_OneAtATime ==
    [][(trace' # trace /\ trace'.applicationId # 0) =>
          /\ pc = "loop"
          /\ update = << >>
          /\ Len(writes) = Len(statusUpdates)
          /\ idx <= Len(snapshot)
          /\ trace'.applicationId = snapshot[idx].id
          /\ \A k \in 1..Len(checkedApplications) :
                \E j \in 1..(idx - 1) :
                    snapshot[j].id = checkedApplications[k].applicationId
          /\ \A k \in 1..Len(statusUpdates) :
                \E j \in 1..(idx - 1) :
                    snapshot[j].id = statusUpdates[k].applicationId]_vars

C25_Witness ==
    /\ Len(snapshot) >= 2
    /\ trace.applicationId = snapshot[2].id
    /\ trace.consulted # << >>
    /\ snapshot[1].id \in Range(writes)
    /\ applications[snapshot[1].id].status # snapshot[1].status

\* C26: when the run returns, every StatusUpdate of its updates list was
\* applied: the stored status of its application is the update's newStatus
\* (no other operation changes the table during this run).
C26_ReportedUpdatesApplied ==
    [][(pc = "loop" /\ pc' = "done") =>
          \A k \in 1..Len(statusUpdates) :
              applications[statusUpdates[k].applicationId].status
                 = statusUpdates[k].newStatus]_vars
\* C22: calculateSimilarity returns 0, and neither throws nor yields NaN,
\* whenever one of two vectors of the same length has only zero components.
C22_ZeroVectorSafe ==
    (/\ similarity # NotCalled
     /\ Len(embeddingA) = Len(embeddingB)
     /\ \/ \A i \in 1..Len(embeddingA) : embeddingA[i] = 0
        \/ \A i \in 1..Len(embeddingB) : embeddingB[i] = 0)
        => similarity = 0

C22_Witness ==
    /\ similarity = 0
    /\ Len(embeddingA) = MaxDim
    /\ Len(embeddingB) = MaxDim
    /\ \A i \in 1..MaxDim : embeddingA[i] = 0
    /\ \E i \in 1..MaxDim : embeddingB[i] # 0

\* C23: calculateSimilarity fails for an embedding whose length differs from
\* the user's; the posting gets no result and no score, every posting whose
\* embedding has the user's length is in the results, and the request
\* answers 200 having gone through all postings.
C23_DimensionMismatch ==
    /\ \A i \in 1..Len(embeddingOf) :
          (embeddingOf[i] # NoEmbedding
             /\ Len(embeddingOf[i]) # Len(UserEmbedding)) =>
             /\ calculateSimilarity(UserEmbedding, embeddingOf[i]) = Thrown
             /\ internships[i] \in unscored
             /\ match_score[internships[i]] = NoScore
             /\ \A k \in 1..Len(matchingResults) :
                   matchingResults[k].internshipId # internships[i]
    /\ \A i \in 1..Len(embeddingOf) :
          (embeddingOf[i] # NoEmbedding
             /\ Len(embeddingOf[i]) = Len(UserEmbedding)) =>
             \E k \in 1..Len(matchingResults) :
                 matchingResults[k].internshipId = internships[i]
    /\ (mpc = "done" /\ embeddingOf # << >>) =>
          /\ matchResult.status = 200
          /\ Len(embeddingOf) = Len(internships)

C23_Witness ==
    /\ mpc = "done"
    /\ Len(embeddingOf) >= 2
    /\ Len(embeddingOf[1]) # Len(UserEmbedding)
    /\ Len(embeddingOf[2]) = Len(UserEmbedding)
    /\ Len(matchResult.data) = 1
    /\ matchResult.data[1].internshipId = internships[2]
\* C27: the table never holds two records of the same user and internship.
C27_OneRecordPerPair ==
    \A i, j \in 1..Len(applications) :
        (/\ applications[i].user_id = applications[j].user_id
         /\ applications[i].internship_id = applications[j].internship_id)
           => i = j
C28_CircuitBreaker ==
    [][/\ (breaker.state = "OPEN"
             /\ clock - breaker.lastFailureTime <= timeout) =>
             /\ calls' <= calls
             /\ breaker'.state # "HALF_OPEN"
             /\ lastCall' # "invoked"
       /\ breaker'.state = "OPEN" => streak' >= threshold
       /\ lastCall' \in {"succeeded", "reset"} =>
             (breaker'.state = "CLOSED" /\ breaker'.failures = 0)]_vars

C28_Witness ==
    /\ breaker.state = "OPEN"
    /\ lastCall = "rejected"
    /\ clock - breaker.lastFailureTime = timeout
    /\ streak = threshold
\* C29: with maxAttempts >= 1 the operation is invoked at most maxAttempts
\* times and, once retry has settled, at least once; every invocation but
\* the last one failed; retry returns exactly when the last invocation
\* succeeded, and then its value; it throws exactly when maxAttempts
\* invocations failed, and then the error of the last.
C29_Retry ==
    retry.maxAttempts >= 1 =>
        LET n == Len(attempts)
        IN  /\ n <= retry.maxAttempts
            /\ \A k \in 1..(n - 1) : attempts[k] \in Errors
            /\ retry.pc = "done" =>
                  /\ n >= 1
                  /\ retry.outcome \in {"returned", "thrown"}
                  /\ retry.outcome = "returned" <=> attempts[n] \in Values
                  /\ retry.value = attempts[n]
                  /\ retry.outcome = "thrown" => n = retry.maxAttempts
            /\ retry.pc # "done" =>
                  (retry.outcome = "none" /\ (n >= 1 => attempts[n] \in Errors))

C29_Witness ==
    /\ retry.pc = "done"
    /\ retry.outcome = "thrown"
    /\ retry.maxAttempts = MaxAttempts
    /\ Len(attempts) = MaxAttempts
    /\ attempts[1] # attempts[MaxAttempts]
    /\ retry.value = attempts[MaxAttempts]
\* C30: a channel exists exactly for the channel names with a registered
\* callback; every subscribe call whose returned function has not been
\* called has its callback registered on its channel, and an event of the
\* channel runs that callback.
C30_SubscribersKeepReceiving ==
    [][/\ channels' = {c \in DOMAIN callbacks' : callbacks'[c] # << >>}
       /\ \A k \in 1..Len(subscriptions') :
             subscriptions'[k].active =>
                /\ subscriptions'[k].channelName \in channels'
                /\ subscriptions'[k].callback
                      \in Range(callbacks'[subscriptions'[k].channelName])
       /\ reached' # reached =>
             \A k \in 1..Len(subscriptions) :
                 (subscriptions[k].active
                    /\ subscriptions[k].channelName = reached'.channelName) =>
                    subscriptions[k].callback \in reached'.invoked]_vars
====
